---- MODULE Spec2Model ----
(***************************************************************************)
(* AsyncQueue<T> of src/src/queue/asyncQueue.ts (the class with the        *)
(* maxConcurrent option, lines 160-316).                                   *)
(*                                                                         *)
(* JavaScript runs one synchronous segment at a time: a segment runs from  *)
(* a call or from the resumption of an `await` up to the next `await` (or  *)
(* the return).  Every action below is one such segment, so all the        *)
(* interleavings of workers, timers and callers that the event loop can    *)
(* produce are interleavings of these actions.                             *)
(*                                                                         *)
(* Handlers and the consumer are the caller's code.  What they observe is  *)
(* recorded per item in `trace`: one entry per handler call about the item *)
(* (started, success, error), one per call of processFn on it (invoke), one *)
(* per settlement of the promise it returned (resolved, rejected) and one  *)
(* per retryDelay timer set for it (delay); the calls of the end handler   *)
(* are counted per consume() call.  Registered handlers return normally    *)
(* except in the specification that has SuccessHandlerThrows.  `returned`  *)
(* holds what the call made in the last step gave back to its caller.      *)
(***************************************************************************)
EXTENDS Integers, Sequences, FiniteSets, TLC

\* ---------------------------------------------------------------- bounds
\* number of enqueue() calls in a behaviour
MaxItems == 3
\* number of consume() calls in a behaviour of Spec
MaxDrains == 1

\* ----------------------------------------------------------------- inputs
\* the options a queue is constructed with: both branches of consume
\* (maxConcurrent <= 1, > 1), a buffer of one and of several elements, and
\* the direct call (maxRetries = 0), one attempt and several attempts
MaxConcurrentValues == {1, 2}
MaxQueueSizeValues == {1, 2}
MaxRetriesValues == {0, 1, 2}

\* the messages of the errors the consumer rejects with
Msgs == {"boom"}

ItemIds == 1..MaxItems
\* the consume() calls: those of Spec and one more, made by SpecOverlap
Drains == 1..(MaxDrains + 1)
WorkerIds == 1..(CHOOSE n \in MaxConcurrentValues : \A m \in MaxConcurrentValues : m <= n)

VARIABLES
    options,    \* this.options (readonly)
    items,      \* this.items: the buffer of QueueElement
    trace,      \* per item: what the handlers and the consumer observed of it
    enqueued,   \* number of enqueue() calls made so far
    dropped,    \* items of the elements that clear() removed
    drains,     \* one record per consume() call
    workers,    \* the position of every worker of every consume() call
    returned    \* what the call made in the last step returned (or threw)

vars == <<options, items, trace, enqueued, dropped, drains, workers, returned>>

\* ------------------------------------------------------------ data types
\* QueueElement<T>: the item and its (absent) error
QueueElement(item) == [item |-> item, error |-> "undefined"]

\* faulty variant: the rejection reports the other admission kind
QueueFullError_WrongKind == [errorType |-> "maxConcurrent", errorMessage |-> "Queue is full"]

\* QueueElementError of a rejected enqueue
QueueFullError == [errorType |-> "maxQueueSize", errorMessage |-> "Queue is full"]

\* faulty variant: the message of the error is not read at all
ErrorMessage_AlwaysUnknown(msg) == "Unknown error"

\* (err as Error)?.message || 'Unknown error'
ErrorMessage(msg) == IF msg = "" THEN "Unknown error" ELSE msg

\* faulty variant: a failed processing is reported with the admission kind
ProcessingError_WrongKind(msg) ==
    [errorType |-> "maxQueueSize", errorMessage |-> ErrorMessage(msg)]

\* QueueElementError of a failed processing
ProcessingError(msg) == [errorType |-> "error", errorMessage |-> ErrorMessage(msg)]

\* an observation without error data, made in consume() call d
Ev(ev, d) ==
    [ev |-> ev, drain |-> d, errorType |-> "undefined", errorMessage |-> "undefined"]

\* an observation with error data (d = 0: made in enqueue)
ErrEv(ev, d, error) ==
    [ev |-> ev, drain |-> d,
     errorType |-> error.errorType, errorMessage |-> error.errorMessage]

\* the number of started events fired so far
StartedSoFar(tr) ==
    Cardinality(UNION {{<<i, k>> : k \in {n \in DOMAIN tr[i] : tr[i][n].ev = "started"}} :
                       i \in ItemIds})

\* the started event of consume() call d; `order` is its position among the
\* calls of the started handler
StartedEv(tr, d) ==
    [ev |-> "started", drain |-> d, errorType |-> "undefined",
     errorMessage |-> "undefined", order |-> StartedSoFar(tr) + 1]

\* a call that returns nothing
Void == [op |-> "none", threw |-> FALSE, value |-> <<>>]

\* the trace with one more observation of item
Observe(tr, item, e) == [tr EXCEPT ![item] = Append(@, e)]

\* a worker that was never spawned / one whose loop has ended
NoWorker == [pc |-> "none", item |-> 0, retriesLeft |-> 0]
ExitedWorker == [pc |-> "exited", item |-> 0, retriesLeft |-> 0]

\* the options record handed to the constructor names this option; reading an
\* option it does not name gives undefined
Given(name) == name \notin options.omitted

\* ------------------------------------------------------- pure operations
\* faulty variant: admission counts every enqueue() call made so far
QueueIsFull_CountsCalls(currentSize, maxQueueSize) == enqueued >= maxQueueSize

\* faulty variant: the admission test forgets the element being added
QueueIsFull_OffByOne(currentSize, maxQueueSize) == currentSize > maxQueueSize

\* enqueue: (currentSize + 1) > this.options.maxQueueSize
QueueIsFull(currentSize, maxQueueSize) == (currentSize + 1) > maxQueueSize

\* isEmpty()
isEmpty(its) == Len(its) = 0

\* faulty variant: the head is read but not removed (items[0] for items.shift())
dequeue_NoRemove(its) == [element |-> Head(its), rest |-> its]

\* faulty variant: the element is taken from the tail (items.pop() for items.shift())
dequeue_Pop(its) == [element |-> its[Len(its)], rest |-> SubSeq(its, 1, Len(its) - 1)]

\* dequeue(): this.items.shift(), on a non-empty buffer
dequeue(its) == [element |-> Head(its), rest |-> Tail(its)]

\* faulty variant: the items are handed out newest first
getItems_Reversed(its) == [k \in 1..Len(its) |-> its[Len(its) + 1 - k].item]

\* getItems: items.map(item => item.item)
getItems(its) == [k \in 1..Len(its) |-> its[k].item]

\* peek: `this.items[0].item`; reading .item of the undefined items[0] of an
\* empty buffer throws a TypeError
peek(its) ==
    IF Len(its) = 0
    THEN [op |-> "peek", threw |-> TRUE, value |-> <<>>]
    ELSE [op |-> "peek", threw |-> FALSE, value |-> <<its[1].item>>]

\* faulty variant: the newest element stays in the buffer
clear_KeepsLast(its) == IF its = <<>> THEN <<>> ELSE <<its[Len(its)]>>

\* clear: this.items = []
clear(its) == <<>>

\* consume: maxConcurrent <= 1 selects the sequential branch
IsSequential(maxConcurrent) == maxConcurrent <= 1

\* faulty variant: only processWithRetries catches what the consumer throws
HandlesRejection_OnlyRetries(sequential, maxRetries) == maxRetries # 0

\* faulty variant: the sequential branch calls processFn without a try block
HandlesRejection_OnlyWorkers(sequential, maxRetries) == ~sequential \/ maxRetries # 0

\* the try/catch around the awaited call: lines 261-272 (sequential branch,
\* maxRetries === 0), 288-303 (worker) and 229-246 (processWithRetries)
HandlesRejection(sequential, maxRetries) == TRUE

\* faulty variant: the exhaustion test can never be true
RetriesExhausted_Never(retriesLeft) == retriesLeft < 0

\* processWithRetries, catch: if (retriesLeft === 0), after retriesLeft--
RetriesExhausted(retriesLeft) == retriesLeft = 0

\* faulty variant: the join returns with the first worker (Promise.race for Promise.all)
AllWorkersExited_Any(ws) == \E w \in WorkerIds : ws[w].pc = "exited"

\* Promise.all(workers) resolves when every worker's promise has resolved
AllWorkersExited(ws) == \A w \in WorkerIds : ws[w].pc \in {"none", "exited"}

\* a worker that holds an element
InFlight(wk) == wk.pc \in {"awaitDirect", "awaitRetry", "delay", "awaitRetries"}

\* ------------------------------------------------- synchronous segments
\* Each operator runs the code from one point up to the next await and
\* returns the buffer, the trace and the worker's new position; `ended`
\* tells that consume() fired end and returned.
Segment(its, tr, wk, ended) == [items |-> its, trace |-> tr, wk |-> wk, ended |-> ended]

\* consume() call d was made with a function as processFn
Callable(d) == drains[d].processFn = "function"

\* the message of the TypeError that calling an undefined processFn throws
NotAFunction == "processFn is not a function"

\* the trace after `processFn(item)` threw that TypeError inside a try block
Threw(tr, item, d) ==
    Observe(tr, item, ErrEv("threw", d, [errorType |-> "undefined",
                                         errorMessage |-> NotAFunction]))

\* processWithRetries: while (retriesLeft > 0) { try { await processFn(...)
\* when processFn cannot be called the catch block runs in the same segment
RetryLoop(its, tr, item, retriesLeft, d) ==
    IF retriesLeft > 0 /\ Callable(d)
    THEN Segment(its, Observe(tr, item, Ev("invoke", d)),
                 [pc |-> "awaitRetry", item |-> item, retriesLeft |-> retriesLeft], FALSE)
    ELSE IF retriesLeft > 0 /\ RetriesExhausted(retriesLeft - 1)
    THEN Segment(its, Observe(Threw(tr, item, d), item,
                              ErrEv("error", d, ProcessingError(NotAFunction))),
                 [pc |-> "awaitRetries", item |-> item, retriesLeft |-> retriesLeft - 1], FALSE)
    ELSE IF retriesLeft > 0
    THEN Segment(its, Observe(Threw(tr, item, d), item, Ev("delay", d)),
                 [pc |-> "delay", item |-> item, retriesLeft |-> retriesLeft - 1], FALSE)
    ELSE Segment(its, tr,
                 [pc |-> "awaitRetries", item |-> item, retriesLeft |-> retriesLeft], FALSE)

\* faulty variant: the started handler is not called
BeginElement_NoStarted(its, tr, element, d) ==
    IF Given("maxRetries") /\ options.maxRetries = 0
    THEN Segment(its, Observe(tr, element.item, Ev("invoke", d)),
                 [pc |-> "awaitDirect", item |-> element.item, retriesLeft |-> 0], FALSE)
    ELSE RetryLoop(its, tr, element.item, options.maxRetries, d)

\* from the claimed element to the first await: handlers.started, then either
\* the direct call (maxRetries === 0) or processWithRetries
BeginElement(its, tr, element, d) ==
    LET started == Observe(tr, element.item, StartedEv(tr, d)) IN
    IF Given("maxRetries") /\ options.maxRetries = 0
    THEN Segment(its, Observe(started, element.item, Ev("invoke", d)),
                 [pc |-> "awaitDirect", item |-> element.item, retriesLeft |-> 0], FALSE)
    ELSE RetryLoop(its, started, element.item, options.maxRetries, d)

\* with maxRetries === 0 and a processFn that cannot be called, the catch
\* block around `await processFn(...)` runs at once and the loop goes on
\* without any await
ThrowsAtOnce(d) == ~Callable(d) /\ Given("maxRetries") /\ options.maxRetries = 0

\* the trace after such a loop has gone through the whole buffer: started and
\* error for one element after the other
RECURSIVE FailEach(_, _, _)
FailEach(its, tr, d) ==
    IF isEmpty(its)
    THEN tr
    ELSE LET item == dequeue(its).element.item
             started == Observe(tr, item, StartedEv(tr, d))
             reported == Observe(Threw(started, item, d), item,
                                 ErrEv("error", d, ProcessingError(NotAFunction)))
         IN FailEach(dequeue(its).rest, reported, d)

\* sequential branch: while (!this.isEmpty()) { dequeue ... } handlers.end
SequentialLoop(its, tr, d) ==
    IF isEmpty(its)
    THEN Segment(its, tr, ExitedWorker, TRUE)
    ELSE IF ThrowsAtOnce(d)
    THEN Segment(<<>>, FailEach(its, tr, d), ExitedWorker, TRUE)
    ELSE BeginElement(dequeue(its).rest, tr, dequeue(its).element, d)

\* faulty variant: a worker leaves its loop while another worker of the call
\* waits out a retry delay
WorkerLoop_StopsDuringDelay(its, tr, d) ==
    IF Len(its) = 0 \/ \E w \in WorkerIds : workers[d][w].pc = "delay"
    THEN Segment(its, tr, ExitedWorker, FALSE)
    ELSE IF ThrowsAtOnce(d)
    THEN Segment(<<>>, FailEach(its, tr, d), ExitedWorker, FALSE)
    ELSE BeginElement(dequeue(its).rest, tr, dequeue(its).element, d)

\* worker: while (true) { element = dequeue(); if (!element) break; ...
WorkerLoop(its, tr, d) ==
    IF Len(its) = 0
    THEN Segment(its, tr, ExitedWorker, FALSE)
    ELSE IF ThrowsAtOnce(d)
    THEN Segment(<<>>, FailEach(its, tr, d), ExitedWorker, FALSE)
    ELSE BeginElement(dequeue(its).rest, tr, dequeue(its).element, d)

\* faulty variant: a worker stops after its first element
Loop_Once(its, tr, d) ==
    Segment(its, tr, ExitedWorker, IsSequential(options.maxConcurrent))

\* the loop a worker of this queue goes back to
Loop(its, tr, d) ==
    IF IsSequential(options.maxConcurrent)
    THEN SequentialLoop(its, tr, d)
    ELSE WorkerLoop(its, tr, d)

\* faulty variant: the spawning loop stops one worker short
RECURSIVE SpawnWorkers_OneFewer(_, _, _, _, _)
SpawnWorkers_OneFewer(its, tr, ws, i, d) ==
    IF i >= options.maxConcurrent
    THEN [items |-> its, trace |-> tr, workers |-> ws]
    ELSE LET r == WorkerLoop(its, tr, d)
         IN SpawnWorkers_OneFewer(r.items, r.trace, [ws EXCEPT ![i] = r.wk], i + 1, d)

\* for (i = 0; i < maxConcurrent; i++) workers.push(worker()): every worker
\* runs up to its first await before the next one is created
RECURSIVE SpawnWorkers(_, _, _, _, _)
SpawnWorkers(its, tr, ws, i, d) ==
    IF i > options.maxConcurrent
    THEN [items |-> its, trace |-> tr, workers |-> ws]
    ELSE LET r == WorkerLoop(its, tr, d)
         IN SpawnWorkers(r.items, r.trace, [ws EXCEPT ![i] = r.wk], i + 1, d)

\* the items of the elements of a buffer
ItemsOf(its) == {its[k].item : k \in 1..Len(its)}

\* a consume() call one of whose workers has not left its loop yet
HasLiveWorker(d) == \E w \in WorkerIds : InFlight(workers[d][w])

\* ------------------------------------------------------------------ Init
\* a processFn of which nothing is fixed in advance: any call may resolve
\* or reject
Unplanned == [i \in ItemIds |-> <<>>]

\* the fields of a new object, the processFn each consume() call will be
\* made with and, where it is fixed in advance, what that function does:
\* plan[i][n] tells how its n-th call on item i settles
FreshOf(processFns, plans) ==
    /\ items = <<>>
    /\ trace = [i \in ItemIds |-> <<>>]
    /\ enqueued = 0
    /\ dropped = {}
    /\ drains = [d \in Drains |-> [state |-> "idle", ends |-> 0, endSaw |-> "none",
                                   seen |-> {}, processFn |-> processFns[d],
                                   plan |-> plans[d]]]
    /\ workers = [d \in Drains |-> [w \in WorkerIds |-> NoWorker]]
    /\ returned = Void

\* the same with a processFn of which nothing is fixed in advance
FreshWith(processFns) == FreshOf(processFns, [d \in Drains |-> Unplanned])

\* a new object on which consume() is only called with a function
Fresh == FreshWith([d \in Drains |-> "function"])

\* new AsyncQueue(options) with every option named; new AsyncQueue() has the
\* same shape with the values of lines 174-179
Init ==
    /\ options \in [maxConcurrent : MaxConcurrentValues,
                    maxQueueSize : MaxQueueSizeValues,
                    maxRetries : MaxRetriesValues,
                    omitted : {{}}]
    /\ Fresh

\* --------------------------------------------------------------- actions
\* enqueue(item); the item of the n-th call is n
Enqueue ==
    /\ enqueued < MaxItems
    /\ enqueued' = enqueued + 1
    /\ LET item == enqueued + 1 IN
       IF Given("maxQueueSize") /\ QueueIsFull(Len(items), options.maxQueueSize)
       THEN /\ trace' = Observe(trace, item, ErrEv("error", 0, QueueFullError))
            /\ UNCHANGED <<items, drains>>
       ELSE /\ items' = Append(items, QueueElement(item))
            /\ drains' = [d \in Drains |->
                            IF HasLiveWorker(d)
                            THEN [drains[d] EXCEPT !.seen = @ \cup {item}]
                            ELSE drains[d]]
            /\ UNCHANGED trace
    /\ returned' = Void
    /\ UNCHANGED <<options, dropped, workers>>

\* clear()
Clear ==
    /\ items # <<>>
    /\ items' = clear(items)
    /\ dropped' = dropped \cup (ItemsOf(items) \ ItemsOf(items'))
    /\ returned' = Void
    /\ UNCHANGED <<options, trace, enqueued, drains, workers>>

\* the record of consume() call d after a segment: when the segment fired
\* handlers.end and returned, the handler was called once more and what it
\* found in the buffer (isEmpty()) is kept
Ended(dr, ended, its) ==
    IF ended
    THEN [dr EXCEPT !.state = "resolved", !.ends = @ + 1,
                    !.endSaw = IF isEmpty(its) THEN "empty" ELSE "pending"]
    ELSE dr

\* consume(processFn), up to its first await (or to its return)
Consume(d) ==
    /\ drains[d].state = "idle"
    /\ \A e \in Drains : e < d => drains[e].state # "idle"
    /\ IF IsSequential(options.maxConcurrent)
       THEN LET r == SequentialLoop(items, trace, d) IN
            /\ items' = r.items
            /\ trace' = r.trace
            /\ workers' = [workers EXCEPT ![d][1] = r.wk]
            /\ drains' = [drains EXCEPT ![d] =
                            Ended([@ EXCEPT !.state = "running", !.seen = ItemsOf(items)],
                                  r.ended, r.items)]
       ELSE LET r == SpawnWorkers(items, trace, workers[d], 1, d) IN
            /\ items' = r.items
            /\ trace' = r.trace
            /\ workers' = [workers EXCEPT ![d] = r.workers]
            /\ drains' = [drains EXCEPT ![d] =
                            [@ EXCEPT !.state = "running", !.seen = ItemsOf(items)]]
    /\ returned' = Void
    /\ UNCHANGED <<options, enqueued, dropped>>

\* what a segment leaves behind for worker w of consume() call d
Resume(d, w, r) ==
    /\ items' = r.items
    /\ trace' = r.trace
    /\ workers' = [workers EXCEPT ![d][w] = r.wk]
    /\ drains' = [drains EXCEPT ![d] = Ended(@, r.ended, r.items)]
    /\ returned' = Void
    /\ UNCHANGED <<options, enqueued, dropped>>

\* the promise of processFn resolves and the worker resumes after its await
ConsumerResolves(d, w) ==
    LET wk == workers[d][w]
        tr == Observe(Observe(trace, wk.item, Ev("resolved", d)), wk.item, Ev("success", d))
    IN
    /\ wk.pc \in {"awaitDirect", "awaitRetry"}
    /\ IF wk.pc = "awaitDirect"
       THEN Resume(d, w, Loop(items, tr, d))
       ELSE Resume(d, w, Segment(items, tr, [wk EXCEPT !.pc = "awaitRetries"], FALSE))

\* the catch block that runs when the try block of worker wk threw an Error
\* of message msg: lines 264-271 and 295-302 after the direct call, lines
\* 233-246 in processWithRetries; tr is the trace up to the throw
Catch(d, wk, tr, msg) ==
    LET reported == Observe(tr, wk.item, ErrEv("error", d, ProcessingError(msg))) IN
    IF wk.pc = "awaitDirect"
    THEN Loop(items, reported, d)
    ELSE IF RetriesExhausted(wk.retriesLeft - 1)
    THEN Segment(items, reported,
                 [wk EXCEPT !.pc = "awaitRetries", !.retriesLeft = @ - 1], FALSE)
    ELSE Segment(items, Observe(tr, wk.item, Ev("delay", d)),
                 [wk EXCEPT !.pc = "delay", !.retriesLeft = @ - 1], FALSE)

\* the promise of processFn rejects with an Error of message msg
ConsumerRejects(d, w, msg) ==
    LET wk == workers[d][w]
        rejected == Observe(trace, wk.item,
                            ErrEv("rejected", d, [errorType |-> "undefined",
                                                  errorMessage |-> msg]))
    IN
    /\ wk.pc \in {"awaitDirect", "awaitRetry"}
    /\ IF ~HandlesRejection(IsSequential(options.maxConcurrent), options.maxRetries)
       THEN /\ trace' = rejected
            /\ workers' = [workers EXCEPT ![d][w] = [wk EXCEPT !.pc = "threw"]]
            /\ drains' = [drains EXCEPT ![d].state = "rejected"]
            /\ returned' = Void
            /\ UNCHANGED <<options, items, enqueued, dropped>>
       ELSE Resume(d, w, Catch(d, wk, rejected, msg))

\* the promise of processFn resolves and the success handler, called next
\* inside the same try block (lines 263, 231, 291), throws an Error of
\* message msg
SuccessHandlerThrows(d, w, msg) ==
    LET wk == workers[d][w]
        tr == Observe(Observe(trace, wk.item, Ev("resolved", d)), wk.item, Ev("success", d))
    IN
    /\ wk.pc \in {"awaitDirect", "awaitRetry"}
    /\ Resume(d, w, Catch(d, wk, tr, msg))

\* the retryDelay timer of line 244 fires
RetryDelayElapsed(d, w) ==
    LET wk == workers[d][w] IN
    /\ wk.pc = "delay"
    /\ Resume(d, w, RetryLoop(items, trace, wk.item, wk.retriesLeft, d))

\* `await this.processWithRetries(...)` resumes in the loop that called it
RetriesReturn(d, w) ==
    /\ workers[d][w].pc = "awaitRetries"
    /\ Resume(d, w, Loop(items, trace, d))

\* `await Promise.all(workers)` resumes: handlers.end, consume() returns
JoinEnd(d) ==
    /\ drains[d].state = "running"
    /\ ~IsSequential(options.maxConcurrent)
    /\ AllWorkersExited(workers[d])
    /\ drains' = [drains EXCEPT ![d] = Ended(@, TRUE, items)]
    /\ returned' = Void
    /\ UNCHANGED <<options, items, trace, enqueued, dropped, workers>>

\* the steps of the queue other than the calls of consume()
Step ==
    \/ Enqueue
    \/ Clear
    \/ \E d \in Drains, w \in WorkerIds : ConsumerResolves(d, w)
    \/ \E d \in Drains, w \in WorkerIds, msg \in Msgs : ConsumerRejects(d, w, msg)
    \/ \E d \in Drains, w \in WorkerIds : RetryDelayElapsed(d, w)
    \/ \E d \in Drains, w \in WorkerIds : RetriesReturn(d, w)
    \/ \E d \in Drains : JoinEnd(d)

Next ==
    \/ \E d \in 1..MaxDrains : Consume(d)
    \/ Step

Spec == Init /\ [][Next]_vars

\* the same queue with one more consume() call, which may be made while an
\* earlier call has not resolved
NextOverlap ==
    \/ \E d \in Drains : Consume(d)
    \/ Step

SpecOverlap == Init /\ [][NextOverlap]_vars

\* ------------------------------------------------------------ vocabulary
\* the number of observations of kind ev of item i
Count(i, ev) == Cardinality({k \in DOMAIN trace[i] : trace[i][k].ev = ev})

\* the number of error events of item i with the given kind
Errors(i, kind) ==
    Cardinality({k \in DOMAIN trace[i] :
                    trace[i][k].ev = "error" /\ trace[i][k].errorType = kind})

\* enqueue was called with item i and turned it down / took it
Rejected(i) == i <= enqueued /\ Errors(i, "maxQueueSize") > 0
Accepted(i) == i <= enqueued /\ Errors(i, "maxQueueSize") = 0

\* a worker of consume() call d dequeued the element of item i
ClaimedBy(i, d) ==
    \E k \in DOMAIN trace[i] : trace[i][k].ev = "started" /\ trace[i][k].drain = d

\* the final outcome of item i has been reported
Finished(i) == Count(i, "success") + Errors(i, "error") >= 1

\* the workers that hold the element of item i
Holders(i) ==
    {dw \in Drains \X WorkerIds :
        InFlight(workers[dw[1]][dw[2]]) /\ workers[dw[1]][dw[2]].item = i}

TypeOK ==
    /\ items \in Seq([item : ItemIds, error : {"undefined"}])
    /\ enqueued \in 0..MaxItems
    /\ dropped \subseteq ItemIds
    /\ returned.op \in {"none", "getItems", "peek"}
    /\ options.omitted \subseteq {"maxConcurrent", "maxQueueSize", "maxRetries"}
    /\ \A d \in Drains :
          /\ drains[d].state \in {"idle", "running", "resolved", "rejected"}
          /\ drains[d].endSaw \in {"none", "empty", "pending"}
          /\ drains[d].processFn \in {"function", "undefined"}
          /\ drains[d].seen \subseteq ItemIds
          /\ \A w \in WorkerIds :
                workers[d][w].pc \in {"none", "exited", "threw", "awaitDirect",
                                      "awaitRetry", "delay", "awaitRetries"}

\* ---------------------------------------------------------------- claims
\* C1: whatever enqueue, clear and consume steps were taken, the buffer never
\* holds more than maxQueueSize elements.
C1_BufferWithinLimit == Len(items) <= options.maxQueueSize

\* C1 witness: a full buffer after an item was turned down, another was
\* dropped by clear() and a consume() call is under way
C1_Witness ==
    /\ Len(items) = options.maxQueueSize
    /\ \E i \in ItemIds : Rejected(i)
    /\ dropped # {}
    /\ \E d \in Drains : drains[d].state = "running"

\* C2: an enqueue on a buffer that holds maxQueueSize elements leaves the
\* buffer and everything else as it was and makes exactly one observation:
\* one error event for that item, of kind maxQueueSize and message
\* "Queue is full", fired inside the call.
C2_FullQueueRejects ==
    [][(enqueued' = enqueued + 1 /\ Len(items) >= options.maxQueueSize) =>
         /\ items' = items
         /\ trace' = [trace EXCEPT ![enqueued + 1] =
                        <<[ev |-> "error", drain |-> 0, errorType |-> "maxQueueSize",
                           errorMessage |-> "Queue is full"]>>]
         /\ UNCHANGED <<options, dropped, drains, workers>>]_vars

\* C2 witness: two enqueues beyond the limit, each with its one error event
C2_Witness ==
    \E i, j \in ItemIds :
        /\ i # j
        /\ Rejected(i) /\ Len(trace[i]) = 1
        /\ Rejected(j) /\ Len(trace[j]) = 1
        /\ Len(items) = options.maxQueueSize

\* C3: with maxConcurrent > 1 no element is handed out twice (one started
\* event, one holder at most, and a held element is no longer buffered), and
\* none is skipped: once the workers of a consume() call have all left, every
\* element that was buffered while one of them was at work has been claimed,
\* unless clear() dropped it.
C3_ClaimedExactlyOnce ==
    ~IsSequential(options.maxConcurrent) =>
        /\ \A i \in ItemIds :
              /\ Count(i, "started") <= 1
              /\ Cardinality(Holders(i)) <= 1
              /\ Holders(i) # {} => Count(i, "started") = 1 /\ i \notin ItemsOf(items)
              /\ Cardinality({k \in DOMAIN items : items[k].item = i}) <= 1
        /\ \A d \in Drains :
              (drains[d].state # "idle" /\ ~HasLiveWorker(d)) =>
                  \A i \in drains[d].seen : i \in dropped \/ Count(i, "started") = 1

\* C3 witness: a finished concurrent consume() call that saw three elements,
\* all of them claimed
C3_Witness ==
    /\ ~IsSequential(options.maxConcurrent)
    /\ \E d \in Drains :
          /\ drains[d].state = "resolved"
          /\ Cardinality(drains[d].seen) >= 3
          /\ \A i \in drains[d].seen : ClaimedBy(i, d)

\* C4: with maxConcurrent <= 1 a consume() call holds one element at a time,
\* claims the elements in insertion order, and has reported the final outcome
\* of an element before it claims the next; the consumer is only called on an
\* element between its started event and its outcome.
C4_SequentialOrder ==
    IsSequential(options.maxConcurrent) =>
        \A d \in Drains :
            /\ Cardinality({w \in WorkerIds : InFlight(workers[d][w])}) <= 1
            /\ \A i, j \in ItemIds :
                  (i < j /\ ClaimedBy(j, d)) =>
                      /\ i \notin ItemsOf(items)
                      /\ ClaimedBy(i, d) => Finished(i)
            /\ \A i \in ItemIds :
                  (ClaimedBy(i, d) /\ ~Finished(i)) =>
                      \E w \in WorkerIds : InFlight(workers[d][w]) /\ workers[d][w].item = i
            /\ \A i \in ItemIds : \A k \in DOMAIN trace[i] :
                  trace[i][k].ev = "invoke" =>
                      /\ trace[i][1].ev = "started"
                      /\ \A m \in 1..(k - 1) : trace[i][m].ev \notin {"success", "error"}

\* C4 witness: one sequential consume() call went through three elements,
\* with retries, and holds the third
C4_Witness ==
    /\ IsSequential(options.maxConcurrent)
    /\ options.maxRetries > 0
    /\ \E d \in Drains :
          /\ \A i \in ItemIds : ClaimedBy(i, d)
          /\ Finished(1) /\ Finished(2) /\ ~Finished(MaxItems)
          /\ \E i \in ItemIds : Count(i, "rejected") > 0

\* C5: with maxRetries = R > 0 the consumer is called on an element until it
\* succeeds or R + 1 calls have failed: never more than R + 1 calls, and an
\* element that is reported failed has had exactly R + 1.
C5_AttemptsAreRetriesPlusOne ==
    options.maxRetries > 0 =>
        \A i \in ItemIds :
            /\ Count(i, "invoke") <= options.maxRetries + 1
            /\ Errors(i, "error") > 0 => Count(i, "invoke") = options.maxRetries + 1

\* C6: with maxRetries = R > 0, an element whose consumer has failed k <= R
\* times is not reported failed (its next attempt is still to come), and once
\* an attempt succeeds success fires exactly once.
C6_SuccessWithinRetries ==
    options.maxRetries > 0 =>
        \A i \in ItemIds :
            Count(i, "rejected") <= options.maxRetries =>
                /\ Errors(i, "error") = 0
                /\ Count(i, "resolved") > 0 => Count(i, "success") = 1

\* C7: when a consume() call has resolved, each element it dequeued has one
\* started event and one final outcome event: error if every call of the
\* consumer on it failed, success otherwise, never both.
C7_OneOutcomePerElement ==
    \A d \in Drains :
        drains[d].state = "resolved" =>
            \A i \in ItemIds :
                ClaimedBy(i, d) =>
                    /\ Count(i, "started") = 1
                    /\ Count(i, "success") + Errors(i, "error") = 1
                    /\ Errors(i, "error") = 1 <=> Count(i, "resolved") = 0
                    /\ Count(i, "success") = 1 <=> Count(i, "resolved") > 0
                    /\ Count(i, "invoke") = Count(i, "resolved") + Count(i, "rejected")

\* C7 witness: a resolved concurrent consume() call with retries, one of whose
\* elements failed for good and another succeeded after a failed attempt
C7_Witness ==
    /\ ~IsSequential(options.maxConcurrent)
    /\ options.maxRetries > 0
    /\ \E d \in Drains :
          /\ drains[d].state = "resolved"
          /\ \E i, j \in ItemIds :
                /\ ClaimedBy(i, d) /\ Errors(i, "error") = 1
                /\ ClaimedBy(j, d) /\ Count(j, "success") = 1 /\ Count(j, "rejected") > 0

\* C8: a failure of the consumer stays with its element: no consume() call
\* rejects, no worker dies of it, a worker only leaves its loop on an empty
\* buffer, and when the call has resolved every element that was buffered
\* while one of its workers was at work has its final outcome, unless clear()
\* dropped it or a worker of another consume() call holds it.
C8_FailureIsLocal ==
    /\ [](\A d \in Drains :
          /\ drains[d].state # "rejected"
          /\ \A w \in WorkerIds : workers[d][w].pc # "threw"
          /\ drains[d].state = "resolved" =>
                \A i \in drains[d].seen :
                    i \in dropped \/ Finished(i) \/ (~ClaimedBy(i, d) /\ Holders(i) # {}))
    /\ [][\A d \in Drains, w \in WorkerIds :
            (InFlight(workers[d][w]) /\ ~InFlight(workers'[d][w])) =>
                (workers'[d][w].pc = "exited" /\ items' = <<>>)]_vars

\* C8 witness: a resolved consume() call whose first element failed and whose
\* later element was still processed, here without retries
C8_Witness ==
    /\ options.maxRetries = 0
    /\ \E d \in Drains :
          /\ drains[d].state = "resolved"
          /\ \E i, j \in ItemIds :
                /\ i < j
                /\ ClaimedBy(i, d) /\ Errors(i, "error") = 1
                /\ ClaimedBy(j, d) /\ Count(j, "success") = 1

\* C9: the end handler is called once per consume() call, the call resolves
\* with that call of the handler, at that point no worker of the call is left
\* and every element the call claimed has its outcome, and nothing is observed
\* of the call afterwards.
C9_EndOnceAfterWorkers ==
    /\ [](\A d \in Drains :
          /\ drains[d].ends <= 1
          /\ drains[d].state = "resolved" <=> drains[d].ends = 1
          /\ drains[d].ends = 1 =>
                /\ ~HasLiveWorker(d)
                /\ \A i \in ItemIds : ClaimedBy(i, d) => Finished(i))
    /\ [][\A d \in Drains :
            drains[d].ends >= 1 =>
                /\ drains'[d].ends = drains[d].ends
                /\ \A i \in ItemIds :
                      \A k \in DOMAIN trace'[i] :
                          k > Len(trace[i]) => trace'[i][k].drain # d]_vars

\* C9 witness: a concurrent consume() call with retries that has fired end
\* after its workers processed three elements
C9_Witness ==
    /\ ~IsSequential(options.maxConcurrent)
    /\ options.maxRetries > 0
    /\ \E d \in Drains :
          /\ drains[d].ends = 1
          /\ Cardinality({i \in ItemIds : ClaimedBy(i, d)}) >= 3

\* C10: when the end handler is called the buffer is empty, in both modes and
\* whatever enqueue calls were made while the consume() call was under way.
C10_BufferEmptyAtEnd ==
    \A d \in Drains : drains[d].ends >= 1 => drains[d].endSaw = "empty"

\* the positions, among all calls of the started handler, at which consume()
\* call d reported item i
StartOrders(i, d) ==
    {trace[i][k].order : k \in {n \in DOMAIN trace[i] :
                                  trace[i][n].ev = "started" /\ trace[i][n].drain = d}}

\* C11: with maxConcurrent > 1 the workers of a consume() call claim the
\* elements in insertion order: once an element is claimed no element that
\* was enqueued before it is still in the buffer, and the started events of
\* the call fire in insertion order.
C11_ConcurrentClaimsInOrder ==
    ~IsSequential(options.maxConcurrent) =>
        \A d \in Drains : \A i, j \in ItemIds :
            (i < j /\ ClaimedBy(j, d)) =>
                /\ i \notin ItemsOf(items)
                /\ \A a \in StartOrders(i, d) : \A b \in StartOrders(j, d) : a < b

\* C11 witness: a consume() call with two workers reported three elements as
\* started, one after the other, and two of them are still being processed
C11_Witness ==
    /\ options.maxConcurrent = 2
    /\ \A i \in 1..3 : StartOrders(i, 1) = {i}
    /\ Holders(2) # {} /\ Holders(3) # {}

\* the workers consume() call d has created
Spawned(d) == {w \in WorkerIds : workers[d][w].pc # "none"}

\* the elements consume() call d has claimed and not yet reported as finished
Unfinished(d) == {i \in ItemIds : ClaimedBy(i, d) /\ ~Finished(i)}

\* C12: with maxConcurrent > 1 a consume() call creates exactly maxConcurrent
\* workers, and at every instant the elements it has claimed but not yet
\* finished are at most maxConcurrent, each of them held by one of its workers.
C12_AtMostMaxConcurrentInFlight ==
    ~IsSequential(options.maxConcurrent) =>
        \A d \in Drains :
            drains[d].state # "idle" =>
                /\ Cardinality(Spawned(d)) = options.maxConcurrent
                /\ Cardinality(Unfinished(d)) <= options.maxConcurrent
                /\ \A i \in Unfinished(d) :
                      \E w \in Spawned(d) :
                          InFlight(workers[d][w]) /\ workers[d][w].item = i

\* C12 witness: both workers of a consume() call with maxConcurrent = 2 hold
\* an element while a third element waits in the buffer
C12_Witness ==
    /\ options.maxConcurrent = 2
    /\ Cardinality(Unfinished(1)) = 2
    /\ \A w \in WorkerIds : InFlight(workers[1][w])
    /\ items # <<>>

\* ------------------------------------------------- the consumer's messages
\* the messages of the errors of a consumer that fails in different ways:
\* `new Error()` has the empty message
AnyMsgs == {"", "boom"}

\* one consume() call on a queue whose consumer rejects with any of AnyMsgs
NextMessages ==
    \/ Enqueue
    \/ Clear
    \/ Consume(1)
    \/ \E w \in WorkerIds : ConsumerResolves(1, w)
    \/ \E w \in WorkerIds, msg \in AnyMsgs : ConsumerRejects(1, w, msg)
    \/ \E w \in WorkerIds : RetryDelayElapsed(1, w)
    \/ \E w \in WorkerIds : RetriesReturn(1, w)
    \/ JoinEnd(1)

SpecMessages == Init /\ [][NextMessages]_vars

\* observation k of item i is the error event of a failed processing
IsFailure(i, k) == trace[i][k].ev = "error" /\ trace[i][k].errorType = "error"

\* C13: with maxRetries > 0 the error event of a failed processing is the last
\* thing that happens to its element, so it fires once and no attempt follows;
\* it comes right after the rejection of the last attempt and carries the kind
\* 'error' and that rejection's message, or 'Unknown error' when that message
\* is empty; a rejection without it is followed by a retry.
C13_ErrorOnceWithLastMessage ==
    options.maxRetries > 0 =>
        \A i \in ItemIds :
            /\ \A k \in DOMAIN trace[i] :
                  IsFailure(i, k) =>
                      /\ k = Len(trace[i]) /\ k > 1
                      /\ trace[i][k - 1].ev = "rejected"
                      /\ trace[i][k].errorMessage =
                            IF trace[i][k - 1].errorMessage = ""
                            THEN "Unknown error"
                            ELSE trace[i][k - 1].errorMessage
            /\ \A k \in DOMAIN trace[i] :
                  (trace[i][k].ev = "rejected" /\ ~(k < Len(trace[i]) /\ IsFailure(i, k + 1))) =>
                      /\ k < Len(trace[i]) /\ trace[i][k + 1].ev = "delay"
                      /\ k + 1 = Len(trace[i]) =>
                            \E dw \in Holders(i) : workers[dw[1]][dw[2]].pc = "delay"

\* C13 as stated: the error event always carries the very message of the last
\* attempt's error.
C13_LastMessageVerbatim ==
    options.maxRetries > 0 =>
        \A i \in ItemIds : \A k \in DOMAIN trace[i] :
            IsFailure(i, k) =>
                /\ k > 1
                /\ trace[i][k].errorMessage = trace[i][k - 1].errorMessage

\* C13 witness: the two attempts of maxRetries = 2 failed with different
\* messages and the error event carries the second one
C13_Witness ==
    /\ options.maxRetries = 2
    /\ \E i \in ItemIds :
          /\ Count(i, "rejected") = 2
          /\ \E k \in DOMAIN trace[i] :
                /\ trace[i][k].ev = "rejected" /\ trace[i][k].errorMessage = ""
                /\ k < Len(trace[i]) - 1
          /\ IsFailure(i, Len(trace[i]))
          /\ trace[i][Len(trace[i])].errorMessage = "boom"

\* C14: with maxRetries = 0 the consumer is called exactly once on a claimed
\* element; when that call fails the element is reported by one error event
\* with the kind 'error' and the consumer's message, or 'Unknown error' when
\* that message is empty, and nothing more happens to the element.
C14_NoRetrySingleAttempt ==
    options.maxRetries = 0 =>
        \A i \in ItemIds :
            Count(i, "started") > 0 =>
                /\ Count(i, "invoke") = 1
                /\ Count(i, "rejected") > 0 =>
                      /\ Len(trace[i]) = 4
                      /\ trace[i][3].ev = "rejected"
                      /\ IsFailure(i, 4)
                      /\ trace[i][4].errorMessage =
                            IF trace[i][3].errorMessage = ""
                            THEN "Unknown error"
                            ELSE trace[i][3].errorMessage

\* C14 as stated: the error event always carries the very message of the
\* consumer's error.
C14_MessageVerbatim ==
    options.maxRetries = 0 =>
        \A i \in ItemIds : \A k \in DOMAIN trace[i] :
            IsFailure(i, k) =>
                /\ k > 1
                /\ trace[i][k].errorMessage = trace[i][k - 1].errorMessage

\* C14 witness: without retries one element failed with a message, another
\* with the empty message, each after a single call of the consumer
C14_Witness ==
    /\ options.maxRetries = 0
    /\ \E i, j \in ItemIds :
          /\ Count(i, "invoke") = 1 /\ Count(j, "invoke") = 1
          /\ Len(trace[i]) = 4 /\ Len(trace[j]) = 4
          /\ IsFailure(i, 4) /\ trace[i][4].errorMessage = "boom"
          /\ IsFailure(j, 4) /\ trace[j][4].errorMessage = "Unknown error"

\* ------------------------------------------------------ reading the queue
\* getItems()
GetItems ==
    /\ returned' = [op |-> "getItems", threw |-> FALSE, value |-> getItems(items)]
    /\ UNCHANGED <<options, items, trace, enqueued, dropped, drains, workers>>

\* peek()
Peek ==
    /\ returned' = peek(items)
    /\ UNCHANGED <<options, items, trace, enqueued, dropped, drains, workers>>

\* a queue on which consume() is called once
NextOne ==
    \/ Enqueue
    \/ Clear
    \/ Consume(1)
    \/ \E w \in WorkerIds : ConsumerResolves(1, w)
    \/ \E w \in WorkerIds, msg \in Msgs : ConsumerRejects(1, w, msg)
    \/ \E w \in WorkerIds : RetryDelayElapsed(1, w)
    \/ \E w \in WorkerIds : RetriesReturn(1, w)
    \/ JoinEnd(1)

\* the same queue, read at any moment
NextReads ==
    \/ NextOne
    \/ GetItems
    \/ Peek

SpecReads == Init /\ [][NextReads]_vars

\* the items that were accepted and neither claimed nor dropped since
Pending ==
    {i \in ItemIds : Accepted(i) /\ Count(i, "started") = 0 /\ i \notin dropped}

\* C15: getItems() returns the accepted items that no worker has claimed and
\* no clear() has dropped, each once and in insertion order, and changes
\* neither the buffer nor anything else of the queue.
C15_GetItemsIsPendingInOrder ==
    [][returned'.op = "getItems" =>
         /\ ~returned'.threw
         /\ Len(returned'.value) = Cardinality(Pending)
         /\ \A k \in DOMAIN returned'.value : returned'.value[k] \in Pending
         /\ \A k, m \in DOMAIN returned'.value :
                k < m => returned'.value[k] < returned'.value[m]
         /\ UNCHANGED <<options, items, trace, enqueued, dropped, drains, workers>>]_vars

\* C15 witness: getItems() returned two items, in order, after an earlier
\* item was claimed
C15_Witness ==
    /\ returned.op = "getItems"
    /\ returned.value = <<2, 3>>
    /\ Count(1, "started") = 1

\* C16: peek() returns the item at the head of the buffer, or no value when
\* the buffer is empty; it never fails, removes nothing and fires no event.
C16_PeekNeverFails ==
    [][returned'.op = "peek" =>
         /\ ~returned'.threw
         /\ returned'.value = IF items = <<>> THEN <<>> ELSE <<items[1].item>>
         /\ UNCHANGED <<options, items, trace, enqueued, dropped, drains, workers>>]_vars

\* C17: clear() leaves the buffer empty, so that isEmpty() is true and
\* getItems() is empty right after it, and touches nothing else: an element a
\* worker has claimed stays with its worker until its success or error event,
\* which it has when the consume() call resolves; a dropped element never
\* comes back into the buffer and is never started.
C17_ClearDropsOnlyPending ==
    /\ [](\A i \in dropped : Count(i, "started") = 0 /\ i \notin ItemsOf(items))
    /\ [](\A d \in Drains : \A i \in ItemIds :
            ClaimedBy(i, d) =>
                /\ ~Finished(i) => Holders(i) # {}
                /\ drains[d].state = "resolved" => Finished(i))
    /\ [][dropped' # dropped =>
             /\ isEmpty(items')
             /\ getItems(items') = <<>>
             /\ dropped' = dropped \cup ItemsOf(items)
             /\ UNCHANGED <<options, trace, enqueued, drains, workers>>]_vars

\* C17 witness: clear() dropped an element that was enqueued after the one a
\* worker is still processing
C17_Witness ==
    \E i, j \in ItemIds :
        /\ i < j /\ j \in dropped
        /\ Holders(i) # {}
        /\ items = <<>>

\* ------------------------------------------------- partial configuration
OptionNames == {"maxConcurrent", "maxQueueSize", "maxRetries"}

\* what the code makes of an option the options record does not name:
\* consume reads maxConcurrent as `maxConcurrent ?? 1`; `x > maxQueueSize` and
\* `maxRetries === 0` are false whatever stands here (see Given); and
\* `retriesLeft > 0` is as false for undefined as it is for 0
ReadsAs(name) == IF name = "maxConcurrent" THEN 1 ELSE 0

\* new AsyncQueue(options) with an options record that leaves options out:
\* `options ?? {...}` keeps the record as it is
InitPartial ==
    /\ \E om \in (SUBSET OptionNames) \ {{}} :
          options \in [maxConcurrent : IF "maxConcurrent" \in om
                                       THEN {ReadsAs("maxConcurrent")}
                                       ELSE MaxConcurrentValues,
                       maxQueueSize : IF "maxQueueSize" \in om
                                      THEN {ReadsAs("maxQueueSize")}
                                      ELSE MaxQueueSizeValues,
                       maxRetries : IF "maxRetries" \in om
                                    THEN {ReadsAs("maxRetries")}
                                    ELSE MaxRetriesValues,
                       omitted : {om}]
    /\ Fresh

SpecPartial == InitPartial /\ [][Next]_vars

\* C18: an option the configuration record leaves out has its default: without
\* maxRetries the consumer is called once on every claimed element and a
\* failure is reported at once (maxRetries 0); without maxQueueSize the queue
\* takes every item up to the default limit of 1000; without maxConcurrent
\* one element is processed at a time.
C18_OmittedOptionsDefault ==
    /\ ~Given("maxRetries") =>
          \A i \in ItemIds :
              /\ Count(i, "started") > 0 => Count(i, "invoke") = 1
              /\ Count(i, "rejected") > 0 => Errors(i, "error") = 1
    /\ ~Given("maxQueueSize") =>
          \A i \in 1..enqueued : Accepted(i)
    /\ ~Given("maxConcurrent") =>
          \A d \in Drains :
              Cardinality({w \in WorkerIds : InFlight(workers[d][w])}) <= 1

\* ------------------------------------------------------------- progress
\* every call of the consumer settles, every retryDelay timer fires, and the
\* event loop resumes every continuation that is ready
Fairness ==
    /\ \A w \in WorkerIds :
          /\ WF_vars(ConsumerResolves(1, w) \/ \E msg \in Msgs : ConsumerRejects(1, w, msg))
          /\ WF_vars(RetryDelayElapsed(1, w))
          /\ WF_vars(RetriesReturn(1, w))
    /\ WF_vars(JoinEnd(1))

SpecLive == Init /\ [][NextOne]_vars /\ Fairness

\* nothing will be enqueued any more, and what consume() call d has not
\* claimed yet is still ahead of one of its workers
NoMoreEnqueues(d) ==
    /\ drains[d].state = "running"
    /\ enqueued = MaxItems
    /\ HasLiveWorker(d) \/ items = <<>>

\* C19: a consume() call during which nothing more is enqueued resolves, with
\* the buffer empty and the end handler called once, whatever maxConcurrent
\* and maxRetries are and however the consumer's calls settle.
C19_DrainResolves ==
    NoMoreEnqueues(1) ~>
        (drains[1].state = "resolved" /\ items = <<>> /\ drains[1].ends = 1)

\* C19 witness: a consume() call with two workers and retries has resolved
\* after every attempt on every one of three elements failed
C19_Witness ==
    /\ options.maxConcurrent = 2 /\ options.maxRetries = 2
    /\ drains[1].state = "resolved" /\ drains[1].ends = 1 /\ items = <<>>
    /\ \A i \in 1..3 : ClaimedBy(i, 1) /\ Count(i, "rejected") = 2 /\ Errors(i, "error") = 1

\* ------------------------------------------------------ the timeout guard
\* the message of the error the timeout guard fails an attempt with
TimeoutMessage == "Timeout"

\* the timer of the timeout guard fires before the consumer has settled: the
\* guarded call rejects, and the worker goes on as after any rejection
TimeoutElapsed(d, w) == ConsumerRejects(d, w, TimeoutMessage)

\* one consume() call with a consumer none of whose calls ever settles
NextNeverSettles ==
    \/ Enqueue
    \/ Clear
    \/ Consume(1)
    \/ \E w \in WorkerIds : TimeoutElapsed(1, w)
    \/ \E w \in WorkerIds : RetryDelayElapsed(1, w)
    \/ \E w \in WorkerIds : RetriesReturn(1, w)
    \/ JoinEnd(1)

\* timers fire and the event loop resumes every continuation that is ready
TimersFire ==
    /\ \A w \in WorkerIds :
          /\ WF_vars(TimeoutElapsed(1, w))
          /\ WF_vars(RetryDelayElapsed(1, w))
          /\ WF_vars(RetriesReturn(1, w))
    /\ WF_vars(JoinEnd(1))

SpecTimeout == Init /\ [][NextNeverSettles]_vars /\ TimersFire

\* the error events of item i that report a failed processing of any kind
Failures(i) ==
    {k \in DOMAIN trace[i] :
        trace[i][k].ev = "error" /\ trace[i][k].errorType # "maxQueueSize"}

Called(d) == drains[d].state = "idle" /\ drains'[d].state # "idle"

\* C21: a consume() call made while another call on the same queue has not
\* resolved does nothing: it claims no element, creates no worker, calls no
\* handler and never calls the end handler.
C21_SecondCallIsNoOp ==
    [][\A d \in Drains :
          (Called(d) /\ \E e \in Drains \ {d} : drains[e].state = "running") =>
              /\ items' = items
              /\ trace' = trace
              /\ workers' = workers
              /\ drains'[d].ends = 0]_vars

\* ------------------------------------------------------------ statistics
\* one consume() call, no reads
SpecOne == Init /\ [][NextOne]_vars

\* the counters of the statistics record: totalItems is incremented by every
\* accepted enqueue, processedItems together with every success event and
\* failedItems together with every error event of a failed processing
totalItems == Cardinality({i \in ItemIds : Accepted(i)})

processedItems ==
    Cardinality(UNION {{<<i, k>> : k \in {n \in DOMAIN trace[i] : trace[i][n].ev = "success"}} :
                       i \in ItemIds})

failedItems ==
    Cardinality(UNION {{<<i, k>> : k \in Failures(i)} : i \in ItemIds})

\* consume() call d has resolved and was given every accepted item: each was
\* in the buffer when the call was made or came in while a worker of the call
\* was at work, and clear() was not called
GivenEveryItem(d) ==
    /\ drains[d].state = "resolved"
    /\ dropped = {}
    /\ \A i \in ItemIds : Accepted(i) => i \in drains[d].seen

\* C22: an element counts at most once, as processed or as failed; when a
\* consume() call that was given M accepted items has resolved, totalItems is
\* M, every one of the M items has counted, and processedItems + failedItems
\* is M.
C22_StatisticsAddUp ==
    /\ \A i \in ItemIds : Count(i, "success") + Cardinality(Failures(i)) <= 1
    /\ GivenEveryItem(1) =>
          /\ totalItems = Cardinality(drains[1].seen)
          /\ \A i \in drains[1].seen : Count(i, "success") + Cardinality(Failures(i)) = 1
          /\ processedItems + failedItems = totalItems

\* C22 witness: a call with two workers has resolved after three items, of
\* which some were processed and some failed
C22_Witness ==
    /\ options.maxConcurrent = 2
    /\ GivenEveryItem(1)
    /\ totalItems = 3
    /\ processedItems >= 1 /\ failedItems >= 1

\* ----------------------------------------------- consume() without consumer
\* the queue on which consume() is called with undefined for processFn
InitNoConsumer ==
    /\ options \in [maxConcurrent : MaxConcurrentValues,
                    maxQueueSize : MaxQueueSizeValues,
                    maxRetries : MaxRetriesValues,
                    omitted : {{}}]
    /\ FreshWith([d \in Drains |-> "undefined"])

\* no call of processFn ever starts, so none settles
NextNoConsumer ==
    \/ Enqueue
    \/ Clear
    \/ Consume(1)
    \/ \E w \in WorkerIds : RetryDelayElapsed(1, w)
    \/ \E w \in WorkerIds : RetriesReturn(1, w)
    \/ JoinEnd(1)

SpecNoConsumer == InitNoConsumer /\ [][NextNoConsumer]_vars

\* C24: a consume() call without a consumer does not get under way: the call
\* is not running or resolved, it has claimed no element and fired no end,
\* and no element has an event from it.
C24_NoConsumerNoEffect ==
    \A d \in Drains :
        ~Callable(d) =>
            /\ drains[d].state = "idle"
            /\ drains[d].ends = 0
            /\ \A i \in ItemIds : ~ClaimedBy(i, d) /\ Cardinality(Failures(i)) = 0

\* ------------------------------------------------------- order of events
\* what happens to an element once a worker has claimed it
OfProcessing(e) ==
    \/ e.ev \in {"invoke", "resolved", "rejected", "success"}
    \/ e.ev = "error" /\ e.errorType # "maxQueueSize"

\* C25: the first thing that happens to a claimed element is its started
\* event: every call of the consumer on it, every settlement and its success
\* or error event come after a started event of the same element.
C25_StartedComesFirst ==
    \A i \in ItemIds : \A k \in DOMAIN trace[i] :
        OfProcessing(trace[i][k]) =>
            /\ trace[i][1].ev = "started"
            /\ k > 1

\* C25 witness: one element was started, failed once and then succeeded, and
\* another was started and reported failed
C25_Witness ==
    \E i, j \in ItemIds :
        /\ trace[i] # <<>> /\ trace[i][1].ev = "started"
        /\ Count(i, "rejected") = 1 /\ Count(i, "success") = 1
        /\ trace[j] # <<>> /\ trace[j][1].ev = "started"
        /\ Cardinality(Failures(j)) = 1

\* C26: a retryDelay timer is set only right after a failed attempt and is
\* followed by the next attempt of the same element; every attempt but the
\* first comes right after such a delay; so an element whose outcome is
\* reported has had one delay less than it has had attempts, and none after
\* its successful or its last failed attempt.
C26_OneDelayBetweenAttempts ==
    \A i \in ItemIds :
        /\ \A k \in DOMAIN trace[i] :
              trace[i][k].ev = "delay" =>
                  /\ k > 1 /\ trace[i][k - 1].ev = "rejected"
                  /\ k < Len(trace[i]) => trace[i][k + 1].ev = "invoke"
                  /\ k = Len(trace[i]) =>
                        \E dw \in Holders(i) : workers[dw[1]][dw[2]].pc = "delay"
        /\ \A k \in DOMAIN trace[i] :
              (trace[i][k].ev = "invoke" /\ \E m \in 1..(k - 1) : trace[i][m].ev = "invoke") =>
                  trace[i][k - 1].ev = "delay"
        /\ Finished(i) => Count(i, "delay") = Count(i, "invoke") - 1

\* C26 witness: an element failed twice with one delay in between, and an
\* element that succeeded at once had no delay
C26_Witness ==
    \E i, j \in ItemIds :
        /\ Count(i, "invoke") = 2 /\ Count(i, "delay") = 1
        /\ Cardinality(Failures(i)) = 1
        /\ Count(j, "invoke") = 1 /\ Count(j, "delay") = 0 /\ Count(j, "success") = 1

\* worker w of call d is suspended: on its retry delay or on its consumer
Waiting(d, w) == workers[d][w].pc \in {"delay", "awaitRetry", "awaitDirect"}

\* worker w of call d is back at the top of its loop in this step
BackInLoop(d, w) ==
    /\ workers[d][w].pc \in {"awaitDirect", "awaitRetries"}
    /\ workers'[d][w] # workers[d][w]

\* C27: in concurrent mode, while one worker of a call waits out a retry
\* delay or awaits its consumer, any other worker of the call can go on: its
\* consumer can settle and its loop can resume; when it comes back to the
\* top of its loop with the buffer not empty it claims the oldest pending
\* element; and none of this changes the waiting worker or its element.
C27_DelaySuspendsOnlyItsWorker ==
    /\ [](\A d \in Drains, w, w2 \in WorkerIds :
            (w # w2 /\ ~IsSequential(options.maxConcurrent) /\ Waiting(d, w)) =>
                /\ workers[d][w2].pc \in {"awaitDirect", "awaitRetry"} =>
                      ENABLED ConsumerResolves(d, w2)
                /\ workers[d][w2].pc = "awaitRetries" => ENABLED RetriesReturn(d, w2))
    /\ [][\A d \in Drains, w, w2 \in WorkerIds :
            (w # w2 /\ ~IsSequential(options.maxConcurrent) /\ Waiting(d, w)
                    /\ workers'[d][w2] # workers[d][w2]) =>
                /\ workers'[d][w] = workers[d][w]
                /\ trace'[workers[d][w].item] = trace[workers[d][w].item]
                /\ (BackInLoop(d, w2) /\ items # <<>>) =>
                      /\ workers'[d][w2].item = Head(items).item
                      /\ InFlight(workers'[d][w2])
                      /\ items' = Tail(items)]_vars

\* C27 witness: a worker is on the retry delay of the first element claimed
\* while the third element claimed, taken by the other worker after it had
\* finished the second, has succeeded
C27_Witness ==
    \E w \in WorkerIds, j \in ItemIds :
        /\ workers[1][w].pc = "delay"
        /\ StartOrders(workers[1][w].item, 1) = {1}
        /\ Count(workers[1][w].item, "delay") = 1
        /\ StartOrders(j, 1) = {3}
        /\ Count(j, "success") = 1

\* the places an item can be in
InBuffer(i) == \E k \in DOMAIN items : items[k].item = i
InWorker(i) == Holders(i) # {} /\ ~Finished(i)
IsDropped(i) == i \in dropped

\* the number of places item i is in
Places(i) ==
    Cardinality({p \in {"buffer", "worker", "finished", "dropped"} :
                    \/ p = "buffer" /\ InBuffer(i)
                    \/ p = "worker" /\ InWorker(i)
                    \/ p = "finished" /\ Finished(i)
                    \/ p = "dropped" /\ IsDropped(i)})

\* C28: an item that enqueue took is in exactly one place: once in the
\* buffer, held by exactly one worker with no outcome yet, finished with
\* exactly one outcome (and held by no second worker), or dropped by
\* clear(); an item that enqueue turned down, or that was never enqueued,
\* is in none of them and was never started.
C28_Conservation ==
    \A i \in ItemIds :
        /\ Accepted(i) =>
              /\ Places(i) = 1
              /\ Cardinality({k \in DOMAIN items : items[k].item = i}) <= 1
              /\ Cardinality(Holders(i)) <= 1
              /\ Count(i, "success") + Errors(i, "error") <= 1
              /\ Count(i, "started") <= 1
              /\ (Holders(i) # {} \/ Finished(i)) <=> Count(i, "started") = 1
        /\ ~Accepted(i) =>
              /\ Places(i) = 0
              /\ Holders(i) = {}
              /\ Count(i, "started") = 0

\* C28 witness: one item dropped by clear(), one finished, one held by a
\* worker with no outcome yet
C28_Witness ==
    \E i, j, k \in ItemIds :
        /\ IsDropped(i) /\ Accepted(i)
        /\ Finished(j) /\ Holders(j) = {}
        /\ InWorker(k)

\* one consume() call on a queue whose registered success handler may throw
NextHandlerThrows ==
    \/ NextOne
    \/ \E w \in WorkerIds, msg \in Msgs : SuccessHandlerThrows(1, w, msg)

SpecHandlerThrows == Init /\ [][NextHandlerThrows]_vars

\* C29: once an invocation of the consumer on an element has resolved, the
\* consumer is not invoked on that element again and no error event fires
\* for it, whether the success handler returns or throws.
C29_SuccessIsFinal ==
    \A i \in ItemIds : \A k, m \in DOMAIN trace[i] :
        (k < m /\ trace[i][k].ev = "resolved") => trace[i][m].ev \notin {"invoke", "error"}

\* the end handler of consume() call d is called in this step
EndFires(d) == drains'[d].ends = drains[d].ends + 1

\* C30: with one consume() call, when its end event fires every item that
\* enqueue took before or during the call, and that clear() did not drop,
\* has been started by the call and has its outcome: the events of the
\* element come before the end event.
C30_EnqueuedDuringDrainIsProcessed ==
    [][EndFires(1) =>
          \A i \in ItemIds :
              (Accepted(i) /\ ~IsDropped(i)) => (ClaimedBy(i, 1) /\ Finished(i))']_vars

\* the items whose element some worker of some consume() call holds with no
\* outcome yet
InFlightItems == {i \in ItemIds : InWorker(i)}

\* C31: with consume() calls that overlap on one queue, every element is
\* claimed by at most one call and started once, and at every instant the
\* elements in flight over all the calls are at most maxConcurrent.
C31_OverlappingDrains ==
    /\ \A i \in ItemIds :
          /\ Cardinality({d \in Drains : ClaimedBy(i, d)}) <= 1
          /\ Count(i, "started") <= 1
          /\ Cardinality(Holders(i)) <= 1
    /\ Cardinality(InFlightItems) <= options.maxConcurrent

\* ------------------------------------------- a consumer fixed in advance
\* the attempts processWithRetries can make on one element
Attempts == 1..(CHOOSE m \in MaxRetriesValues : \A n \in MaxRetriesValues : n <= m)

\* the n-th call of the consumer fails with an Error whose message tells n:
\* the first with "boom", the later ones with the empty message
FailureMessage(n) == IF n = 1 THEN "boom" ELSE ""

\* the consumers whose result depends only on the item and on the number of
\* the attempt
Plans == [ItemIds -> [Attempts -> {"resolves", "rejects"}]]

\* new AsyncQueue(options) with room for every item, and consume() called
\* with one consumer fixed in advance
InitPlanned ==
    /\ options \in [maxConcurrent : MaxConcurrentValues,
                    maxQueueSize : {MaxItems},
                    maxRetries : MaxRetriesValues,
                    omitted : {{}}]
    /\ \E plan \in Plans : FreshOf([d \in Drains |-> "function"], [d \in Drains |-> plan])

\* the buffer is filled before consume() is called
EnqueueBefore == drains[1].state = "idle" /\ Enqueue

\* the promise of the call in progress of worker w settles as the consumer
\* fixed in advance has it
ConsumerSettles(d, w) ==
    LET wk == workers[d][w]
        n == Count(wk.item, "invoke")
    IN
    /\ wk.pc \in {"awaitDirect", "awaitRetry"}
    /\ IF drains[d].plan[wk.item][n] = "resolves"
       THEN ConsumerResolves(d, w)
       ELSE ConsumerRejects(d, w, FailureMessage(n))

NextPlanned ==
    \/ EnqueueBefore
    \/ Consume(1)
    \/ \E w \in WorkerIds : ConsumerSettles(1, w)
    \/ \E w \in WorkerIds : RetryDelayElapsed(1, w)
    \/ \E w \in WorkerIds : RetriesReturn(1, w)
    \/ JoinEnd(1)

SpecPlanned == InitPlanned /\ [][NextPlanned]_vars

\* what the handlers and the consumer have seen of item i: the calls of the
\* consumer, the success events and the messages of the error events
Report(i) ==
    [invoked |-> Count(i, "invoke"),
     success |-> Count(i, "success"),
     errors |-> {trace[i][k].errorMessage : k \in Failures(i)},
     failed |-> Cardinality(Failures(i))]

\* the calls processWithRetries or the direct call make on an element
AttemptsMade == IF options.maxRetries = 0 THEN 1 ELSE options.maxRetries

\* the attempts of plan on item i, among the first n, that resolve
Resolving(plan, i, n) == {a \in 1..n : plan[i][a] = "resolves"}

\* the report that follows from the consumer alone, whatever the mode: the
\* element succeeds at the first attempt that resolves, or fails with the
\* message of the last attempt made
ReportOf(plan, i) ==
    LET ok == Resolving(plan, i, AttemptsMade) IN
    IF ok # {}
    THEN [invoked |-> CHOOSE a \in ok : \A b \in ok : a <= b,
          success |-> 1, errors |-> {}, failed |-> 0]
    ELSE [invoked |-> AttemptsMade, success |-> 0,
          errors |-> {ErrorMessage(FailureMessage(AttemptsMade))}, failed |-> 1]

\* C32: with a consumer whose result depends only on the item and the number
\* of the attempt, a consume() call over a given buffer has, when its
\* promise settles, reported for every item what follows from the consumer
\* alone, with one worker and with several: so the sequential and the
\* concurrent mode give every item the same success or error, the same
\* message and the same number of calls.
C32_SameReportInBothModes ==
    drains[1].state \in {"resolved", "rejected"} =>
        \A i \in drains[1].seen : Report(i) = ReportOf(drains[1].plan, i)

\* C32 witness: a call with two workers has resolved after three elements,
\* one that succeeded at once, one that succeeded at its second attempt and
\* one that failed twice
C32_Witness ==
    /\ options.maxConcurrent = 2
    /\ drains[1].state = "resolved"
    /\ \E i, j, k \in drains[1].seen :
          /\ Report(i).invoked = 1 /\ Report(i).success = 1
          /\ Report(j).invoked = 2 /\ Report(j).success = 1
          /\ Report(k).invoked = 2 /\ Report(k).errors = {"Unknown error"}

\* enqueue() is called in this step
EnqueueCalled == enqueued' = enqueued + 1

\* C33: whether enqueue takes an item depends only on the length of the
\* buffer at the call: with fewer than maxQueueSize elements pending the item
\* is stored at the tail and no event fires, whatever was accepted, turned
\* down, dequeued or cleared before; otherwise the buffer is left as it is
\* and the 'maxQueueSize' error fires for the item.
C33_AdmissionByCurrentLength ==
    [][EnqueueCalled =>
          IF Len(items) < options.maxQueueSize
          THEN /\ items' = Append(items, QueueElement(enqueued'))
               /\ trace' = trace
          ELSE /\ items' = items
               /\ trace' = Observe(trace, enqueued', ErrEv("error", 0, QueueFullError))]_vars

\* C33 witness: the queue was full and turned an item down, then an element
\* left the buffer (dequeued or cleared), and the next item is at the tail
C33_Witness ==
    \E i, j, k \in ItemIds :
        /\ i < j /\ j < k
        /\ IsDropped(i) \/ ClaimedBy(i, 1)
        /\ Rejected(j)
        /\ Accepted(k)
        /\ items # <<>> /\ items[Len(items)].item = k
====
